---- MODULE Spec2Model ----
(***************************************************************************)
(* A model of the youtube-digest pipeline: the ScrapingDog transcript      *)
(* fetcher (src/scrapingdog.mjs) with its retry loop, and run()            *)
(* (src/index.mjs), which lists the channels of every pack, filters,       *)
(* deduplicates, fetches and summarizes each video and assembles one       *)
(* section per pack.                                                       *)
(*                                                                         *)
(* Strings are modelled as sequences of tokens, each token a run of       *)
(* characters of a known length: "w" is a run of n letters, "s" a run of   *)
(* n whitespace characters, "amp" the entity &amp; and so on.  The string  *)
(* operations of the source (join, replace(/\s+/g," "), trim, slice,       *)
(* replaceAll of entities, length) are computed on these sequences.        *)
(***************************************************************************)
EXTENDS Integers, Sequences, FiniteSets, TLC

VARIABLES
    \* process.env, read by scrapingdog.mjs
    apiKey,          \* SCRAPINGDOG_API_KEY is set
    maxAttempts,     \* Number(SCRAPINGDOG_MAX_ATTEMPTS || 3)
    baseDelayMs,     \* Number(SCRAPINGDOG_BASE_DELAY_MS || 800)
    \* one call of fetchTranscriptFromScrapingDog
    fpc,             \* "idle", "attempt", "sleeping", "returned", "thrown"
    attempt,         \* the loop variable
    requests,        \* fetch() calls issued by this call
    sleeps,          \* sleep() calls made by this call
    delay,           \* the ms of the sleep in progress (0: none)
    log,             \* the status answered to each request of this call (0: none)
    lastRes,         \* the provider's answer to the latest request
    jsonRetries,     \* the retries of this call after a 200 body that did not parse
    result,          \* the value returned
    \* process.env, read by index.mjs and openai_summarize.mjs
    openaiKey,       \* OPENAI_API_KEY is set
    frequency,       \* DIGEST_FREQUENCY: "daily" or "weekly"
    capEnv,          \* CAP_DAILY_PER_SECTION / CAP_WEEKLY_PER_SECTION, or Unset
    \* run()
    pc,              \* position of run()
    g,               \* index of the pack being processed
    c,               \* index of the channel being listed
    allVideos,       \* records pushed for this pack, in insertion order
    caught,          \* the channels of this pack whose listing threw
    videos,          \* the deduplicated, sorted records of this pack
    vi,              \* index of the video being processed
    summarizedItems,
    skippedItems,
    sectionsOut,
    delivered,       \* the sections handed to buildEmail/sendEmail
    \* history of the pack being processed
    listed,          \* the records returned by the listings of this pack, unfiltered
    fetchCalls,      \* the records passed to fetchTranscriptFromScrapingDog
    summarizeCalls,  \* the records passed to summarizeTranscript, each with the
                     \* answer of the summarization service to that call
    \* one call of normalizeSummary(obj, maxBullets)
    npc,             \* "idle", "called", "returned", "thrown"
    nsObj,           \* the argument obj
    nsMaxBullets,    \* the argument maxBullets
    nsOut,           \* the summary returned
    \* one call of fetchLatestVideosFromChannelUrl(channelUrl)
    lpc,             \* "idle", "called", "returned", "thrown"
    lWorld,          \* what the network answers: the channel page and the feed
    lOut             \* the records returned

fetchVars == <<fpc, attempt, requests, sleeps, delay, log, lastRes, jsonRetries, result>>
fetchEnv == <<apiKey, maxAttempts, baseDelayMs>>
runEnv == <<openaiKey, frequency, capEnv>>
runVars == <<pc, g, c, allVideos, caught, videos, vi, summarizedItems, skippedItems,
             sectionsOut, delivered, listed, fetchCalls, summarizeCalls>>
history == <<listed, fetchCalls, summarizeCalls>>
normVars == <<npc, nsObj, nsMaxBullets, nsOut>>
listVars == <<lpc, lWorld, lOut>>
vars == <<fetchEnv, fetchVars, runEnv, runVars, normVars, listVars>>

----------------------------------------------------------------------------
(* Bounds of the model *)

\* the largest SCRAPINGDOG_MAX_ATTEMPTS explored by the fetcher's specification
MaxAttemptsCfg == 3

Min(a, b) == IF a < b THEN a ELSE b
Max(a, b) == IF a > b THEN a ELSE b

RECURSIVE Pow2(_)
Pow2(n) == IF n <= 0 THEN 1 ELSE 2 * Pow2(n - 1)

----------------------------------------------------------------------------
(* Strings as token sequences *)

W(n) == [k |-> "w", n |-> n]          \* n letters
S(n) == [k |-> "s", n |-> n]          \* n whitespace characters
Amp == [k |-> "amp", n |-> 5]         \* &amp;
Apos == [k |-> "apos", n |-> 5]       \* &#39;
Quot == [k |-> "quot", n |-> 6]       \* &quot;
Lt == [k |-> "lt", n |-> 4]           \* &lt;
Gt == [k |-> "gt", n |-> 4]           \* &gt;
Nbsp == [k |-> "nbsp", n |-> 6]       \* &nbsp;
HtmlTag == [k |-> "html", n |-> 5]    \* <html

\* String.prototype.length
RECURSIVE StrLen(_)
StrLen(s) == IF s = <<>> THEN 0 ELSE Head(s).n + StrLen(Tail(s))

\* s.replace(/\s+/g, " "): every maximal run of whitespace becomes one space
RECURSIVE CollapseWs(_)
CollapseWs(s) ==
    IF s = <<>> THEN <<>>
    ELSE IF Head(s).k = "s"
         THEN IF Len(s) > 1 /\ s[2].k = "s"
              THEN CollapseWs(Tail(s))
              ELSE <<S(1)>> \o CollapseWs(Tail(s))
         ELSE <<Head(s)>> \o CollapseWs(Tail(s))

RECURSIVE TrimStart(_)
TrimStart(s) ==
    IF s # <<>> /\ Head(s).k = "s" THEN TrimStart(Tail(s)) ELSE s

RECURSIVE TrimEnd(_)
TrimEnd(s) ==
    IF s # <<>> /\ s[Len(s)].k = "s" THEN TrimEnd(SubSeq(s, 1, Len(s) - 1)) ELSE s

\* String.prototype.trim
Trim(s) == TrimEnd(TrimStart(s))

\* s.slice(0, n): the first n characters; a token cut in the middle stays a
\* run of letters (an entity or tag cut short is no longer that entity or tag)
RECURSIVE Slice(_, _)
Slice(s, n) ==
    IF s = <<>> \/ n <= 0 THEN <<>>
    ELSE IF Head(s).n <= n
         THEN <<Head(s)>> \o Slice(Tail(s), n - Head(s).n)
         ELSE <<[k |-> IF Head(s).k = "s" THEN "s" ELSE "w", n |-> n]>>

\* parts.join(" ")
RECURSIVE JoinSp(_)
JoinSp(parts) ==
    IF parts = <<>> THEN <<>>
    ELSE IF Len(parts) = 1 THEN parts[1]
    ELSE parts[1] \o <<S(1)>> \o JoinSp(Tail(parts))

----------------------------------------------------------------------------
(* What the transcript provider can answer to one request *)

Text(s) == [readable |-> TRUE, s |-> s]
Unreadable == [readable |-> FALSE, s |-> <<>>]      \* res.text() rejects

\* JSON values, as far as the fetcher looks into them
NoTranscriptsField == [ty |-> "absent", elems |-> <<>>]
JsonScalar(ty) == [ty |-> ty, transcripts |-> NoTranscriptsField]
JsonObject(tr) == [ty |-> "object", transcripts |-> tr]
TranscriptsArray(elems) == [ty |-> "array", elems |-> elems]
Segment(s) == [ty |-> "object", hasText |-> TRUE, s |-> s]      \* {text: s, ...}
SegmentNoText == [ty |-> "object", hasText |-> FALSE, s |-> <<>>]
StringElem == [ty |-> "string", hasText |-> FALSE, s |-> <<>>]
                                      \* "This video has no transcripts"
NullElem == [ty |-> "null", hasText |-> FALSE, s |-> <<>>]

NotJson == [parses |-> FALSE, val |-> JsonScalar("null")]       \* res.json() rejects
Json(v) == [parses |-> TRUE, val |-> v]

NetworkError(msg) ==
    [kind |-> "throw", status |-> 0, text |-> Unreadable, data |-> NotJson, msg |-> msg]
HttpError(status, body) ==
    [kind |-> "http", status |-> status, text |-> body, data |-> NotJson, msg |-> <<>>]
HttpOk(data) ==
    [kind |-> "http", status |-> 200, text |-> Unreadable, data |-> data, msg |-> <<>>]

NoResponse == NetworkError(<<>>)

TransientStatuses == {429, 500, 502, 503, 504}
ErrorStatuses == TransientStatuses \cup {403, 404}

ErrorBodies ==
    { Unreadable, Text(<<>>), Text(<<W(40), S(2), W(9)>>),
      Text(<<W(150)>>), Text(<<HtmlTag, W(400)>>) }

ErrorMessages == { <<W(12)>>, <<W(120), S(3), W(120)>> }

\* the texts a transcript segment can carry
SegmentTexts ==
    { <<>>, <<S(2)>>, <<W(99)>>, <<W(100)>>, <<W(150)>>, <<W(200)>>,
      <<W(195), Amp>>, <<W(194), Nbsp>>, <<W(90), S(3), W(60), Quot, W(43)>> }

TranscriptElems ==
    {StringElem, NullElem, SegmentNoText} \cup {Segment(s) : s \in SegmentTexts}

\* the values of the "transcripts" field
TranscriptsValues ==
    { NoTranscriptsField, [ty |-> "null", elems |-> <<>>],
      [ty |-> "string", elems |-> <<>>], [ty |-> "object", elems |-> <<>>] }
    \cup { TranscriptsArray(e) :
             e \in {<<>>} \cup { <<x>> : x \in TranscriptElems }
                          \cup { <<x, y>> : x \in TranscriptElems, y \in TranscriptElems } }

FalsyJson == { JsonScalar(ty) : ty \in {"null", "false", "zero", "emptystr"} }
TruthyScalarJson == { JsonScalar(ty) : ty \in {"number", "string", "true", "array"} }

OkBodies ==
    {NotJson} \cup { Json(v) : v \in FalsyJson \cup TruthyScalarJson }
              \cup { Json(JsonObject(t)) : t \in TranscriptsValues }

Responses ==
    { NetworkError(m) : m \in ErrorMessages }
    \cup { HttpError(st, b) : st \in ErrorStatuses, b \in ErrorBodies }
    \cup { HttpOk(d) : d \in OkBodies }

----------------------------------------------------------------------------
(* scrapingdog.mjs: helpers *)

\* isTransientHttp with 503 forgotten
isTransientHttp_No503(status) ==
    status = 429 \/ status = 500 \/ status = 502 \/ status = 504

\* isTransientHttp taking every status from 400 up as transient
isTransientHttp_AnyError(status) == status >= 400

isTransientHttp(status) ==
    status = 429 \/ status = 500 \/ status = 502 \/ status = 503 \/ status = 504

BackoffCapMs == 8000
JitterRange == 250

\* Math.floor(Math.random() * 250) takes any value of 0..249; these stand for it
JitterValues == {0, 117, JitterRange - 1}

\* Response.ok: the status is in the range 200-299
resOk(res) == res.status >= 200 /\ res.status <= 299

\* backoffDelay without the Math.min cap
backoffDelay_NoCap(baseMs, att, jitter) == baseMs * Pow2(att - 1) + jitter

\* backoffDelay(baseMs, attempt), jitter being the value drawn inside it
backoffDelay(baseMs, att, jitter) ==
    Min(baseMs * Pow2(att - 1), BackoffCapMs) + jitter

safeReadText(res) ==
    IF res.text.readable THEN Slice(res.text.s, 300) ELSE <<>>

\* the parsed value, or null when the body does not parse; a body that parses
\* to a falsy value is told apart from it by no caller
safeReadJson(res) ==
    IF res.data.parses THEN res.data.val ELSE JsonScalar("null")

IsFalsy(v) == v.ty \in {"null", "false", "zero", "emptystr"}

Reason(code, status, detail) == [code |-> code, status |-> status, detail |-> detail]
Failure(reason) == [ok |-> FALSE, reason |-> reason, text |-> <<>>, segments |-> 0]
\* lang, which no caller reads, is left out of the value
Success(text, n) ==
    [ok |-> TRUE, reason |-> Reason("", 0, <<>>), text |-> text, segments |-> n]
NoResult == Failure(Reason("none", 0, <<>>))

looksHtml(s) == \E i \in 1..Len(s) : s[i].k = "html"

formatProviderError(status, bodyText) ==
    IF looksHtml(bodyText) THEN Reason("scrapingdog_http", status, <<>>)
    ELSE IF bodyText = <<>> THEN Reason("scrapingdog_http", status, <<>>)
    ELSE Reason("scrapingdog_http", status, Slice(CollapseWs(bodyText), 120))

\* safeErrMsg without slice(0, 200)
safeErrMsg_NoSlice(msg) == CollapseWs(msg)

\* msg being err?.message || String(err)
safeErrMsg(msg) == Slice(CollapseWs(msg), 200)

RECURSIVE DecodeTokens(_)
DecodeTokens(s) ==
    IF s = <<>> THEN <<>>
    ELSE LET t == Head(s)
         IN  (IF t.k \in {"amp", "apos", "quot", "lt", "gt"} THEN <<W(1)>>
              ELSE IF t.k = "nbsp" THEN <<S(1)>>
              ELSE <<t>>) \o DecodeTokens(Tail(s))

decodeHtmlEntities(input) == Trim(CollapseWs(DecodeTokens(input)))

----------------------------------------------------------------------------
(* scrapingdog.mjs: fetchTranscriptFromScrapingDog *)

MinTranscriptChars == 200
DefaultMaxAttempts == 3
DefaultBaseDelayMs == 800

Retry == [retry |-> TRUE, value |-> NoResult]
Return(v) == [retry |-> FALSE, value |-> v]

\* seg?.text || ""
SegText(seg) == IF seg.ty = "object" /\ seg.hasText THEN seg.s ELSE <<>>

\* transcripts.map((seg) => seg?.text || "").filter(Boolean)
RECURSIVE SegTexts(_)
SegTexts(elems) ==
    IF elems = <<>> THEN <<>>
    ELSE (IF SegText(Head(elems)) = <<>> THEN <<>> ELSE <<SegText(Head(elems))>>)
         \o SegTexts(Tail(elems))

\* lines 77-82
fullTextOf(elems) == Trim(CollapseWs(JoinSp(SegTexts(elems))))

\* line 84
tooShort(fullText) == fullText = <<>> \/ StrLen(fullText) < MinTranscriptChars

\* noTranscript without the test for the single sentinel string
noTranscript_NoSentinel(transcripts) ==
    \/ transcripts.ty # "array"
    \/ Len(transcripts.elems) = 0

\* lines 65-75: the shapes of data.transcripts answered with no_transcript
noTranscript(transcripts) ==
    \/ transcripts.ty # "array"
    \/ Len(transcripts.elems) = 0
    \/ Len(transcripts.elems) = 1 /\ transcripts.elems[1].ty = "string"
    \/ transcripts.elems[1].ty \notin {"object", "null"}

\* attempt <= maxAttempts in the place of attempt < maxAttempts
attemptsRemain_OffByOne(att, maxAtt) == att <= maxAtt

\* lines 36, 53, 96: whether another attempt follows
attemptsRemain(att, maxAtt) == att < maxAtt

\* lines 60-93: an OK response whose body parsed to a truthy value
readTranscripts(data) ==
    LET transcripts == data.transcripts
    IN  IF noTranscript(transcripts) THEN Failure(Reason("no_transcript", 0, <<>>))
        ELSE LET fullText == fullTextOf(transcripts.elems)
             IN  IF tooShort(fullText) THEN Failure(Reason("too_short", 0, <<>>))
                 ELSE Success(decodeHtmlEntities(fullText), Len(transcripts.elems))

\* lines 24-101: the body of the loop for one answer of the provider
attemptBody(res, att, maxAtt) ==
    IF res.kind = "throw"
    THEN \* catch (err)
         IF attemptsRemain(att, maxAtt) THEN Retry
         ELSE Return(Failure(Reason("scrapingdog_fetch_error", 0, safeErrMsg(res.msg))))
    ELSE IF ~resOk(res)
    THEN IF isTransientHttp(res.status) /\ attemptsRemain(att, maxAtt) THEN Retry
         ELSE Return(Failure(formatProviderError(res.status, safeReadText(res))))
    ELSE LET data == safeReadJson(res)
         IN  IF IsFalsy(data)
             THEN IF attemptsRemain(att, maxAtt) THEN Retry
                  ELSE Return(Failure(Reason("scrapingdog_invalid_json", 0, <<>>)))
             ELSE Return(readTranscripts(data))

\* the test of line 14 inverted
missingKey_Inverted(key) == key

\* line 14
missingKey(key) == ~key

\* lines 12-23: the call, up to the first test of the loop condition
FetchEnter ==
    /\ attempt' = 1
    /\ requests' = 0
    /\ sleeps' = 0
    /\ delay' = 0
    /\ log' = <<>>
    /\ lastRes' = NoResponse
    /\ jsonRetries' = 0
    /\ IF missingKey(apiKey)
       THEN fpc' = "thrown" /\ result' = NoResult
       ELSE IF 1 <= maxAttempts
            THEN fpc' = "attempt" /\ result' = NoResult
            ELSE /\ fpc' = "returned"
                 /\ result' = Failure(Reason("scrapingdog_unknown_error", 0, <<>>))

\* one iteration of the loop: a request, and either a return or the start of
\* the backoff sleep
FetchAttempt(res) ==
    /\ fpc = "attempt"
    /\    LET o == attemptBody(res, attempt, maxAttempts)
          IN  /\ requests' = requests + 1
              /\ log' = Append(log, res.status)
              /\ lastRes' = res
              /\ jsonRetries' = IF o.retry /\ resOk(res) /\ ~res.data.parses
                                THEN jsonRetries + 1 ELSE jsonRetries
              /\ IF o.retry
                 THEN \E jitter \in JitterValues :
                        /\ fpc' = "sleeping"
                        /\ delay' = backoffDelay(baseDelayMs, attempt, jitter)
                        /\ sleeps' = sleeps + 1
                        /\ result' = result
                 ELSE /\ fpc' = "returned"
                      /\ result' = o.value
                      /\ UNCHANGED <<delay, sleeps>>
    /\ UNCHANGED <<attempt, fetchEnv>>

\* the sleep ends: continue, attempt++, and the loop condition is tested
FetchWake ==
    /\ fpc = "sleeping"
    /\ attempt' = attempt + 1
    /\ delay' = 0
    /\ IF attempt + 1 <= maxAttempts
       THEN fpc' = "attempt" /\ result' = result
       ELSE /\ fpc' = "returned"
            /\ result' = Failure(Reason("scrapingdog_unknown_error", 0, <<>>))
    /\ UNCHANGED <<requests, sleeps, log, lastRes, jsonRetries, fetchEnv>>

----------------------------------------------------------------------------
(* index.mjs: configuration, the recency filter and the video lister *)

Unset == -1                 \* the environment variable is not set
NaN == -1                   \* Date.parse of a string that is no date

DefaultCapDaily == 7
DefaultCapWeekly == 15
MAX_VIDEOS_PER_CHANNEL == 3
MAX_AGE_DAYS_DAILY == 2
MAX_AGE_DAYS_WEEKLY == 9
DayMs == 86400000

\* getCapPerSection(), env being CAP_WEEKLY_PER_SECTION or CAP_DAILY_PER_SECTION
getCapPerSection(freq, env) ==
    IF freq = "weekly"
    THEN (IF env = Unset THEN DefaultCapWeekly ELSE env)
    ELSE (IF env = Unset THEN DefaultCapDaily ELSE env)

getMaxAgeDays(freq) ==
    IF freq = "weekly" THEN MAX_AGE_DAYS_WEEKLY ELSE MAX_AGE_DAYS_DAILY

\* The "published" strings of the feeds are numbered in their lexicographic
\* order, the order a < b of the source compares them in: number i is the
\* ISO-8601 UTC timestamp of day StampDays[i], and the number after them is a
\* string that is no date.
StampDays == <<5, 15, 18, 19, 20>>
BadStamp == Len(StampDays) + 1
NowDay == 20                \* Date.now(), in days

DateParse(p) == IF p \in 1..Len(StampDays) THEN StampDays[p] * DayMs ELSE NaN

\* isWithinMaxAge with > in the place of >= on line 30
isWithinMaxAge_StrictlyNewer(publishedAt, maxAgeDays) ==
    LET publishedMs == DateParse(publishedAt)
    IN  IF publishedMs = NaN THEN FALSE
        ELSE publishedMs > NowDay * DayMs - maxAgeDays * DayMs

\* isWithinMaxAge(publishedAtIso), maxAgeDays being what getMaxAgeDays() returns
isWithinMaxAge(publishedAt, maxAgeDays) ==
    LET publishedMs == DateParse(publishedAt)
    IN  IF publishedMs = NaN THEN FALSE
        ELSE publishedMs >= NowDay * DayMs - maxAgeDays * DayMs

\* the results Array.prototype.sort can give with the comparator
\* (a, b) => (a.publishedAt < b.publishedAt ? 1 : -1): the comparator orders
\* two records of different publishedAt and is inconsistent on equal ones, so
\* the order among equal keys is left to the engine
InsertDesc(x, r) ==
    { SubSeq(r, 1, i) \o <<x>> \o SubSeq(r, i + 1, Len(r)) :
        i \in { j \in 0..Len(r) :
                  /\ \A k \in 1..j : r[k].publishedAt >= x.publishedAt
                  /\ \A k \in (j + 1)..Len(r) : r[k].publishedAt <= x.publishedAt } }

RECURSIVE sortByPublishedDesc(_)
sortByPublishedDesc(s) ==
    IF s = <<>> THEN {<<>>}
    ELSE UNION { InsertDesc(Head(s), r) : r \in sortByPublishedDesc(Tail(s)) }

\* xs.slice(0, n) of an array, n a non-negative integer
ArraySlice(xs, n) == SubSeq(xs, 1, Min(n, Len(xs)))

\* one <entry> block of a feed: the fields parseYouTubeRss extracts
Entry(id, p) == [hasTitle |-> TRUE, videoId |-> id, published |-> p]
EntryNoTitle(id, p) == [hasTitle |-> FALSE, videoId |-> id, published |-> p]
NoVideoId == ""             \* no link, or a link without v=
NoPublished == 0            \* no <published> element

\* lines 76-90: the entries kept, in feed order
RECURSIVE parseEntries(_)
parseEntries(blocks) ==
    IF blocks = <<>> THEN <<>>
    ELSE LET b == Head(blocks)
         IN  (IF b.hasTitle /\ b.published # NoPublished /\ b.videoId # NoVideoId
              THEN <<[videoId |-> b.videoId, publishedAt |-> b.published]>>
              ELSE <<>>) \o parseEntries(Tail(blocks))

\* parseYouTubeRss without the sort of line 93: the entries in feed order
parseYouTubeRss_Unsorted(blocks) == {parseEntries(blocks)}

\* the possible results of parseYouTubeRss(xml)
parseYouTubeRss(blocks) == sortByPublishedDesc(parseEntries(blocks))

\* what the network answers for one channel: the channel page and the feed
PageFails == [page |-> "http_error", rss |-> "none", doc |-> <<>>]
PageUnreachable == [page |-> "network_error", rss |-> "none", doc |-> <<>>]
NoChannelId == [page |-> "no_match", rss |-> "none", doc |-> <<>>]
RssFails == [page |-> "channelId", rss |-> "http_error", doc |-> <<>>]
Feed(doc) == [page |-> "channelId", rss |-> "ok", doc |-> doc]
FeedViaCanonical(doc) == [page |-> "canonical", rss |-> "ok", doc |-> doc]

\* resolveChannelId: TRUE when it returns an id, FALSE when it throws
resolveChannelId(world) == world.page \in {"channelId", "canonical"}

\* fetchLatestVideosFromChannelUrl without the slice of line 49
fetchLatestVideosFromChannelUrl_Untruncated(world) ==
    IF ~resolveChannelId(world) \/ world.rss # "ok"
    THEN [threw |-> TRUE, vids |-> {<<>>}]
    ELSE [threw |-> FALSE, vids |-> parseYouTubeRss(world.doc)]

\* fetchLatestVideosFromChannelUrl: whether it throws, and what it can return
fetchLatestVideosFromChannelUrl(world) ==
    IF ~resolveChannelId(world) \/ world.rss # "ok"
    THEN [threw |-> TRUE, vids |-> {<<>>}]
    ELSE [threw |-> FALSE,
          vids |-> { ArraySlice(e, MAX_VIDEOS_PER_CHANNEL) : e \in parseYouTubeRss(world.doc) }]

\* CHANNEL_PACKS, cut down to two packs; placeholder is an entry whose url is
\* empty or starts with PASTE_
Channel(name) == [name |-> name, placeholder |-> FALSE]
Placeholder(name) == [name |-> name, placeholder |-> TRUE]
CHANNEL_PACKS ==
    << [label |-> "General News", channels |-> <<Placeholder("P"), Channel("A")>>],
       [label |-> "AI News", channels |-> <<Channel("B"), Channel("C")>>] >>

\* what the network can answer for each channel during one run
ChannelWorlds(name) ==
    IF name = "A"
    THEN { PageUnreachable, Feed(<<Entry("a", 5)>>), Feed(<<Entry("a", 1)>>) }
    ELSE IF name = "B"
    THEN { PageFails,
           Feed(<<Entry("b", 4), Entry("a", 3)>>),
           FeedViaCanonical(<<Entry("a", 2), Entry("b", 5), Entry("c", BadStamp)>>) }
    ELSE { RssFails, NoChannelId,
           Feed(<<Entry("a", 5), Entry("c", 3), Entry("b", 1)>>),
           Feed(<<Entry("c", 5), EntryNoTitle("a", 5), Entry("b", 5),
                  Entry(NoVideoId, 4), Entry("a", NoPublished)>>),
           Feed(<<Entry("a", 2), Entry("b", 3), Entry("c", 4), Entry("a", 4)>>) }

----------------------------------------------------------------------------
(* openai_summarize.mjs *)

FallbackOneLiner == <<W(7), S(1), W(12)>>                 \* "Summary unavailable."
FallbackAudience == <<W(6), S(1), W(3), S(1), W(5), S(1), W(1), S(1), W(7), S(1), W(9)>>
                                        \* "Anyone who wants a neutral overview."

\* JavaScript values, as far as normalizeSummary looks into them: s is the
\* string a primitive converts to, elems the elements of an array
JsUndefined == [ty |-> "undefined", s |-> <<W(9)>>, elems |-> <<>>]
JsNull == [ty |-> "null", s |-> <<W(4)>>, elems |-> <<>>]
JsZero == [ty |-> "zero", s |-> <<W(1)>>, elems |-> <<>>]
JsNumber == [ty |-> "number", s |-> <<W(2)>>, elems |-> <<>>]          \* 42
JsStr(s) == [ty |-> "string", s |-> s, elems |-> <<>>]
JsArray(elems) == [ty |-> "array", s |-> <<>>, elems |-> elems]
\* {"a": 1}, which converts to "[object Object]"
JsPlainObject == [ty |-> "object", s |-> <<W(7), S(1), W(7)>>, elems |-> <<>>]
\* {"toString": 1}: the own property hides Object.prototype.toString and is
\* not callable, and valueOf answers the object itself
JsUnconvertible == [ty |-> "unconvertible", s |-> <<>>, elems |-> <<>>]

\* v || ... takes the right-hand side exactly when v is falsy
Truthy(v) ==
    /\ v.ty \notin {"undefined", "null", "zero"}
    /\ ~(v.ty = "string" /\ v.s = <<>>)

\* String(v) throws a TypeError: no method of v gives a primitive
RECURSIVE StringThrows(_)
StringThrows(v) ==
    \/ v.ty = "unconvertible"
    \/ v.ty = "array" /\ \E i \in 1..Len(v.elems) : StringThrows(v.elems[i])

\* parts.join(",")
RECURSIVE JoinComma(_)
JoinComma(parts) ==
    IF parts = <<>> THEN <<>>
    ELSE IF Len(parts) = 1 THEN parts[1]
    ELSE parts[1] \o <<W(1)>> \o JoinComma(Tail(parts))

\* String(v), where it does not throw: an array is its elements joined by ",",
\* null and undefined elements giving the empty string
RECURSIVE StringOf(_)
StringOf(v) ==
    IF v.ty = "array"
    THEN JoinComma([i \in 1..Len(v.elems) |->
                      IF v.elems[i].ty \in {"null", "undefined"} THEN <<>>
                      ELSE StringOf(v.elems[i])])
    ELSE v.s

\* the argument obj: a JSON object with some of the three fields (a field it
\* lacks is JsUndefined), or a value that is no object with fields
SummaryObject(one_liner, key_points, who_should_watch) ==
    [isRecord |-> TRUE, one_liner |-> one_liner, key_points |-> key_points,
     who_should_watch |-> who_should_watch]
NullObject ==
    [isRecord |-> FALSE, one_liner |-> JsUndefined, key_points |-> JsUndefined,
     who_should_watch |-> JsUndefined]

\* obj?.one_liner || "", obj?.who_should_watch || ""
orEmpty(v) == IF Truthy(v) THEN v ELSE JsStr(<<>>)

\* key_points.map((x) => String(x).trim()).filter(Boolean)
RECURSIVE trimmedNonEmpty(_)
trimmedNonEmpty(xs) ==
    IF xs = <<>> THEN <<>>
    ELSE (IF Trim(StringOf(Head(xs))) = <<>> THEN <<>> ELSE <<Trim(StringOf(Head(xs)))>>)
         \o trimmedNonEmpty(Tail(xs))

NoSummary == [one_liner |-> <<>>, key_points |-> <<>>, who_should_watch |-> <<>>]

\* normalizeSummary(obj, maxBullets), maxBullets a non-negative integer:
\* whether it throws, and what it returns
normalizeSummary(obj, maxBullets) ==
    LET f1 == orEmpty(IF obj.isRecord THEN obj.one_liner ELSE JsUndefined)
        kp == IF obj.isRecord THEN obj.key_points ELSE JsUndefined
        key_points == IF kp.ty = "array" THEN kp.elems ELSE <<>>
        f3 == orEmpty(IF obj.isRecord THEN obj.who_should_watch ELSE JsUndefined)
    IN  IF StringThrows(f1) \/ StringThrows(f3)
           \/ \E i \in 1..Len(key_points) : StringThrows(key_points[i])
        THEN [threw |-> TRUE, summary |-> NoSummary]
        ELSE LET one_liner == Trim(StringOf(f1))
                 who_should_watch == Trim(StringOf(f3))
             IN  [threw |-> FALSE,
                  summary |->
                    [one_liner |->
                       Slice(IF one_liner = <<>> THEN FallbackOneLiner ELSE one_liner, 220),
                     key_points |-> ArraySlice(trimmedNonEmpty(key_points), maxBullets),
                     who_should_watch |->
                       Slice(IF who_should_watch = <<>> THEN FallbackAudience
                             ELSE who_should_watch, 180)]]


\* what the collaborator can answer to one request
SummarizerUnreachable == [kind |-> "network_error", status |-> 0, body |-> <<>>, obj |-> NullObject]
SummarizerHttpError(status, body) ==
    [kind |-> "http_error", status |-> status, body |-> body, obj |-> NullObject]
SummarizerBodyNotJson == [kind |-> "body_not_json", status |-> 200, body |-> <<>>, obj |-> NullObject]
SummarizerEmptyOutput == [kind |-> "empty_output", status |-> 200, body |-> <<>>, obj |-> NullObject]
SummarizerBadOutput == [kind |-> "unparseable_output", status |-> 200, body |-> <<>>, obj |-> NullObject]
SummarizerOutput(obj) == [kind |-> "parsed", status |-> 200, body |-> <<>>, obj |-> obj]
\* line 21: the call throws before any request is made
SummarizerNotAsked == [kind |-> "not_asked", status |-> 0, body |-> <<>>, obj |-> NullObject]

SummarizerObjects ==
    { SummaryObject(JsStr(<<W(30)>>),
                    JsArray(<< JsStr(<<W(10)>>), JsStr(<<S(2)>>), JsStr(<<S(1), W(8)>>) >>),
                    JsStr(<<W(20)>>)),
      SummaryObject(JsStr(<<S(1)>>), JsUndefined, JsStr(<<>>)) }

SummarizerAnswers ==
    { SummarizerUnreachable, SummarizerHttpError(500, <<W(200)>>), SummarizerBodyNotJson,
      SummarizerEmptyOutput, SummarizerBadOutput }
    \cup { SummarizerOutput(o) : o \in SummarizerObjects }

\* lines 80-111 throwing where they return a placeholder summary
summarizeTranscript_Throws(answer, maxBullets) ==
    IF answer.kind = "parsed"
    THEN normalizeSummary(answer.obj, maxBullets)
    ELSE [threw |-> TRUE, summary |-> NoSummary]

\* lines 80-111 of summarizeTranscript: whether it throws, and what it returns
summarizeTranscript(answer, maxBullets) ==
    IF answer.kind = "network_error" THEN [threw |-> TRUE, summary |-> NoSummary]
    ELSE IF answer.kind = "http_error"
    THEN [threw |-> FALSE,
          summary |->
            [one_liner |-> <<W(7), S(1), W(11), S(1), W(7), S(1), W(3), S(1), W(7)>>,
             key_points |-> <<>>,
             who_should_watch |->
                 Trim(<<W(3), S(1), W(6), S(1), W(3), S(1)>> \o Slice(answer.body, 120))]]
    ELSE IF answer.kind = "body_not_json" THEN [threw |-> TRUE, summary |-> NoSummary]
    ELSE IF answer.kind = "empty_output"
    THEN [threw |-> FALSE,
          summary |->
            [one_liner |-> <<W(7), S(1), W(11), S(1), W(6), S(1), W(5), S(1), W(8)>>,
             key_points |-> <<>>,
             who_should_watch |-> <<W(5), S(1), W(8), S(1), W(11), S(1), W(3), S(1), W(2),
                                    S(1), W(2), S(1), W(3), S(1), W(6), S(1), W(6)>>]]
    ELSE IF answer.kind = "unparseable_output"
    THEN [threw |-> FALSE,
          summary |->
            [one_liner |-> <<W(7), S(1), W(11), S(1), W(11), S(1), W(6), S(1), W(8)>>,
             key_points |-> <<>>,
             who_should_watch |-> <<W(5), S(1), W(8), S(1), W(11), S(1), W(3), S(1), W(2),
                                    S(1), W(1), S(1), W(10), S(1), W(6)>>]]
    ELSE normalizeSummary(answer.obj, maxBullets)

----------------------------------------------------------------------------
(* index.mjs: run() *)

\* the largest CAP_*_PER_SECTION value explored
MaxCap == 2

NoTranscriptReason == "This video has no transcript/captions available on YouTube."
OtherReason == "Transcript unavailable or too short."

\* line 128: { ...v, channelName: ch.name } for every record of one listing
Records(vids, name) ==
    [i \in 1..Len(vids) |-> [videoId |-> vids[i].videoId,
                             publishedAt |-> vids[i].publishedAt,
                             channelName |-> name]]

\* lines 126-128 without the filter of line 126: every listed record is pushed
pushFresh_Unfiltered(all, vids, name, freq) == all \o Records(vids, name)

\* line 128: fresh.forEach((v) => allVideos.push({...v, channelName}))
RECURSIVE pushFresh(_, _, _, _)
pushFresh(all, vids, name, freq) ==
    IF vids = <<>> THEN all
    ELSE pushFresh(
           IF isWithinMaxAge(Head(vids).publishedAt, getMaxAgeDays(freq))
           THEN Append(all, [videoId |-> Head(vids).videoId,
                             publishedAt |-> Head(vids).publishedAt,
                             channelName |-> name])
           ELSE all,
           Tail(vids), name, freq)

\* lines 136-138 without the Map: every pushed record is a video of the pack
dedupValues_KeepsCopies(all) == all

\* the dedup Map of lines 136-137 keeping the first record set for a key
RECURSIVE dedupValues_FirstWins(_)
dedupValues_FirstWins(all) ==
    IF all = <<>> THEN <<>>
    ELSE LET rest == dedupValues_FirstWins(SubSeq(all, 1, Len(all) - 1))
             v == all[Len(all)]
         IN  IF \E i \in 1..Len(rest) : rest[i].videoId = v.videoId
             THEN rest
             ELSE Append(rest, v)

\* lines 136-138: Array.from(dedup.values()) after dedup.set(v.videoId, v) for
\* every v: a key keeps the place of its first insertion and the value of its
\* last one
RECURSIVE dedupValues(_)
dedupValues(all) ==
    IF all = <<>> THEN <<>>
    ELSE LET rest == dedupValues(SubSeq(all, 1, Len(all) - 1))
             v == all[Len(all)]
         IN  IF \E i \in 1..Len(rest) : rest[i].videoId = v.videoId
             THEN [i \in 1..Len(rest) |->
                     IF rest[i].videoId = v.videoId THEN v ELSE rest[i]]
             ELSE Append(rest, v)

\* lines 152-159 with the fetcher's reason code as the item's reason
pushSkipped_RawReason(items, v, reason) ==
    Append(items, [status |-> "skipped", videoId |-> v.videoId,
                   channelName |-> v.channelName, publishedAt |-> v.publishedAt,
                   summary |-> NoSummary,
                   reason |-> reason.code])

\* lines 152-159 with the push forgotten
pushSkipped_Forgotten(items, v, reason) == items

\* lines 152-159
pushSkipped(items, v, reason) ==
    Append(items, [status |-> "skipped", videoId |-> v.videoId,
                   channelName |-> v.channelName, publishedAt |-> v.publishedAt,
                   summary |-> NoSummary,
                   reason |-> IF reason.code = "no_transcript"
                              THEN NoTranscriptReason ELSE OtherReason])

\* lines 170-174
pushSummarized(items, v, summary) ==
    Append(items, [status |-> "summarized", videoId |-> v.videoId,
                   channelName |-> v.channelName, publishedAt |-> v.publishedAt,
                   summary |-> summary, reason |-> ""])

\* lines 178-197 without the sort
combine_Unsorted(summarized, skipped) == {summarized \o skipped}

\* lines 178-197: the possible values of combined
combine(summarized, skipped) == sortByPublishedDesc(summarized \o skipped)

\* line 199 keeping the end of the list: combined.slice(-cap) for cap > 0
display_KeepsLast(combined, cap) ==
    SubSeq(combined, Len(combined) - Min(cap, Len(combined)) + 1, Len(combined))

\* line 199 cutting one item too late
display_OneMore(combined, cap) == ArraySlice(combined, cap + 1)

\* line 199
display(combined, cap) == ArraySlice(combined, cap)

\* lines 201-208
section(label, vids, summarized, skipped, combined, displayed) ==
    [label |-> label,
     totalNew |-> Len(vids),
     summarizedCount |-> Len(summarized),
     skippedCount |-> Len(skipped),
     notShownCount |-> Max(0, Len(combined) - Len(displayed)),
     items |-> displayed]

\* line 201 pushing a section only for a pack that has videos
pushSection_SkipsEmpty(out, sec) == IF sec.totalNew = 0 THEN out ELSE Append(out, sec)

\* line 201: sectionsOut.push({...})
pushSection(out, sec) == Append(out, sec)

\* the collaborator's answers explored inside run()
RunSummarizerAnswers ==
    { SummarizerUnreachable, SummarizerBodyNotJson, SummarizerHttpError(500, <<W(200)>>),
      SummarizerOutput(SummaryObject(
          JsStr(<<W(30)>>),
          JsArray(<< JsStr(<<W(10)>>), JsStr(<<S(2)>>), JsStr(<<S(1), W(8)>>) >>),
          JsStr(<<W(20)>>))) }

\* the provider's answers explored inside run()
RunResponses ==
    { HttpError(503, Text(<<>>)),
      HttpOk(Json(JsonObject(TranscriptsArray(<<StringElem>>)))),
      HttpOk(Json(JsonObject(TranscriptsArray(<<Segment(<<W(200)>>)>>)))) }

\* the catch block of lines 129-132 emptying the pack's list
channelFailed_DropsSiblings(all) == <<>>

\* lines 129-132: catch (e) {}: nothing is pushed for the channel
channelFailed(all) == all

\* line 149 without the await: run() goes on while the call is still pending
awaited_NotAwaited(p) == p # "idle"

\* line 149: `await fetchTranscriptFromScrapingDog(...)`: run() resumes when the
\* promise of the call has resolved
awaited(p) == p = "returned"

ResetFetch ==
    /\ fpc' = "idle" /\ attempt' = 0 /\ requests' = 0 /\ sleeps' = 0 /\ delay' = 0
    /\ log' = <<>> /\ lastRes' = NoResponse /\ jsonRetries' = 0 /\ result' = NoResult

\* run() is called: line 110
RunStart ==
    /\ pc = "start"
    /\ pc' = "channels" /\ g' = 1 /\ c' = 1
    /\ UNCHANGED <<allVideos, videos, vi, summarizedItems, skippedItems, sectionsOut,
                   delivered, fetchVars, fetchEnv, runEnv, normVars, listVars, caught, history>>

\* lines 119-133: one channel of the pack
RunChannel ==
    /\ pc = "channels"
    /\ c <= Len(CHANNEL_PACKS[g].channels)
    /\ LET ch == CHANNEL_PACKS[g].channels[c]
       IN  IF ch.placeholder
           THEN UNCHANGED <<allVideos, caught, listed>>
           ELSE \E world \in ChannelWorlds(ch.name) :
                   LET r == fetchLatestVideosFromChannelUrl(world)
                   IN  IF r.threw
                       THEN /\ allVideos' = channelFailed(allVideos)
                            /\ caught' = caught \cup {ch.name}
                            /\ listed' = listed
                       ELSE /\ \E vids \in r.vids :
                                  /\ allVideos' = pushFresh(allVideos, vids, ch.name, frequency)
                                  /\ listed' = listed \o Records(vids, ch.name)
                            /\ caught' = caught
    /\ c' = c + 1
    /\ UNCHANGED <<pc, g, videos, vi, summarizedItems, skippedItems, sectionsOut,
                   delivered, fetchCalls, summarizeCalls, fetchVars, fetchEnv, runEnv,
                   normVars, listVars>>

\* lines 135-143: after the last channel
RunDedup ==
    /\ pc = "channels"
    /\ c > Len(CHANNEL_PACKS[g].channels)
    /\ \E sorted \in sortByPublishedDesc(dedupValues(allVideos)) : videos' = sorted
    /\ vi' = 1
    /\ summarizedItems' = <<>>
    /\ skippedItems' = <<>>
    /\ pc' = "videos"
    /\ UNCHANGED <<g, c, allVideos, sectionsOut, delivered, fetchVars, fetchEnv, runEnv,
                   normVars, listVars, caught, history>>

\* line 149: the call of the fetcher for the next video
RunCallFetch ==
    /\ pc = "videos"
    /\ vi <= Len(videos)
    /\ fpc = "idle"
    /\ FetchEnter
    /\ pc' = "fetching"
    /\ fetchCalls' = Append(fetchCalls, videos[vi])
    /\ UNCHANGED <<g, c, allVideos, videos, vi, summarizedItems, skippedItems,
                   sectionsOut, delivered, fetchEnv, runEnv, normVars, listVars, caught,
                   listed, summarizeCalls>>

\* line 149: the fetcher throws, run() rejects, process.exit(1)
RunFetchThrew ==
    /\ pc = "fetching"
    /\ fpc = "thrown"
    /\ pc' = "fatal"
    /\ ResetFetch
    /\ UNCHANGED <<g, c, allVideos, videos, vi, summarizedItems, skippedItems,
                   sectionsOut, delivered, fetchEnv, runEnv, normVars, listVars, caught, history>>

\* lines 151-161: the fetcher returned a failure
RunSkip ==
    /\ pc = "fetching"
    /\ awaited(fpc)
    /\ ~result.ok
    /\ skippedItems' = pushSkipped(skippedItems, videos[vi], result.reason)
    /\ vi' = vi + 1
    /\ pc' = "videos"
    /\ ResetFetch
    /\ UNCHANGED <<g, c, allVideos, videos, summarizedItems, sectionsOut, delivered,
                   fetchEnv, runEnv, normVars, listVars, caught, history>>

\* lines 163-175: the fetcher returned a transcript; the summarization service
\* gives one of `answers`
RunSummarizeWith(answers) ==
    /\ pc = "fetching"
    /\ awaited(fpc)
    /\ result.ok
    /\ ResetFetch
    /\ IF ~openaiKey
       THEN /\ pc' = "fatal"
            /\ summarizeCalls' =
                  Append(summarizeCalls, [video |-> videos[vi], answer |-> SummarizerNotAsked])
            /\ UNCHANGED <<vi, summarizedItems>>
       ELSE \E answer \in answers :
               LET r == summarizeTranscript(answer, 5)
               IN  /\ summarizeCalls' =
                         Append(summarizeCalls, [video |-> videos[vi], answer |-> answer])
                   /\ IF r.threw
                      THEN /\ pc' = "fatal"
                           /\ UNCHANGED <<vi, summarizedItems>>
                      ELSE /\ summarizedItems' =
                                 pushSummarized(summarizedItems, videos[vi], r.summary)
                           /\ vi' = vi + 1
                           /\ pc' = "videos"
    /\ UNCHANGED <<g, c, allVideos, videos, skippedItems, sectionsOut, delivered,
                   fetchEnv, runEnv, normVars, listVars, caught, listed, fetchCalls>>

RunSummarize == RunSummarizeWith(RunSummarizerAnswers)

\* lines 177-209: every video of the pack is done; the pack's locals end here
RunAssemble ==
    /\ pc = "videos"
    /\ vi > Len(videos)
    /\ \E combined \in combine(summarizedItems, skippedItems) :
          LET displayed == display(combined, getCapPerSection(frequency, capEnv))
          IN  sectionsOut' =
                pushSection(sectionsOut,
                            section(CHANNEL_PACKS[g].label, videos, summarizedItems,
                                    skippedItems, combined, displayed))
    /\ allVideos' = <<>>
    /\ caught' = {}
    /\ listed' = <<>>
    /\ fetchCalls' = <<>>
    /\ summarizeCalls' = <<>>
    /\ videos' = <<>>
    /\ vi' = 0
    /\ summarizedItems' = <<>>
    /\ skippedItems' = <<>>
    /\ IF g < Len(CHANNEL_PACKS)
       THEN g' = g + 1 /\ c' = 1 /\ pc' = "channels"
       ELSE g' = g /\ c' = 0 /\ pc' = "email"
    /\ UNCHANGED <<delivered, fetchVars, fetchEnv, runEnv, normVars, listVars>>

\* lines 211-223: the sections are handed to buildEmail and sendEmail
RunDeliver ==
    /\ pc = "email"
    /\ delivered' = TRUE
    /\ pc' = "done"
    /\ UNCHANGED <<g, c, allVideos, videos, vi, summarizedItems, skippedItems,
                   sectionsOut, fetchVars, fetchEnv, runEnv, normVars, listVars, caught, history>>

----------------------------------------------------------------------------
(* The fetcher called on its own, for any environment *)

BaseDelays == {0, DefaultBaseDelayMs, 5000}

FetchIdle ==
    /\ fpc = "idle" /\ attempt = 0 /\ requests = 0 /\ sleeps = 0 /\ delay = 0
    /\ log = <<>> /\ lastRes = NoResponse /\ jsonRetries = 0 /\ result = NoResult

RunIdle ==
    /\ pc = "idle" /\ g = 0 /\ c = 0 /\ allVideos = <<>> /\ caught = {}
    /\ videos = <<>> /\ vi = 0
    /\ summarizedItems = <<>> /\ skippedItems = <<>> /\ sectionsOut = <<>>
    /\ delivered = FALSE
    /\ listed = <<>> /\ fetchCalls = <<>> /\ summarizeCalls = <<>>

NormIdle == npc = "idle" /\ nsObj = NullObject /\ nsMaxBullets = 0 /\ nsOut = NoSummary

ListIdle == lpc = "idle" /\ lWorld = PageFails /\ lOut = <<>>

InitFetch ==
    /\ apiKey \in BOOLEAN
    /\ maxAttempts \in 0..MaxAttemptsCfg
    /\ baseDelayMs \in BaseDelays
    /\ FetchIdle
    /\ openaiKey = TRUE /\ frequency = "daily" /\ capEnv = 0
    /\ RunIdle
    /\ NormIdle
    /\ ListIdle

\* a caller calls fetchTranscriptFromScrapingDog(videoId)
FetchCall ==
    /\ fpc = "idle"
    /\ FetchEnter
    /\ UNCHANGED fetchEnv

NextFetch ==
    \/ FetchCall /\ UNCHANGED <<runEnv, runVars, normVars, listVars>>
    \/ (\E res \in Responses : FetchAttempt(res)) /\ UNCHANGED <<runEnv, runVars, normVars, listVars>>
    \/ FetchWake /\ UNCHANGED <<runEnv, runVars, normVars, listVars>>

SpecFetch == InitFetch /\ [][NextFetch]_vars

\* termination does not depend on the length of the sleeps: the default base
\* delay only
InitFetchLive == InitFetch /\ baseDelayMs = DefaultBaseDelayMs

\* the awaited fetch() settles (the provider answers or the request fails)
\* and the timer of sleep() fires
SpecFetchLive == InitFetchLive /\ [][NextFetch]_vars /\ WF_vars(NextFetch)

----------------------------------------------------------------------------
(* normalizeSummary called on its own, for any argument *)

\* the largest maxBullets explored
MaxBulletsCfg == 3

\* the values of one_liner and who_should_watch
FieldValues ==
    { JsUndefined, JsNull, JsZero, JsNumber, JsPlainObject, JsUnconvertible,
      JsArray(<<>>), JsStr(<<>>), JsStr(<<S(2)>>), JsStr(<<W(30)>>),
      JsStr(<<S(1), W(219), S(1), W(40), S(3)>>), JsStr(<<W(300)>>) }

\* the values of key_points
KeyPointsValues ==
    { JsUndefined, JsNull, JsStr(<<W(5)>>), JsPlainObject, JsArray(<<>>),
      JsArray(<< JsStr(<<S(2)>>), JsNull, JsArray(<< JsStr(<<S(1)>>) >>) >>),
      JsArray(<< JsStr(<<W(10)>>), JsStr(<<S(2)>>), JsStr(<<S(1), W(8), S(1)>>) >>),
      JsArray(<< JsStr(<<W(1)>>), JsStr(<<W(2)>>), JsStr(<<W(3)>>), JsStr(<<W(4)>>),
                 JsStr(<<W(5)>>) >>),
      JsArray(<< JsNumber, JsPlainObject, JsStr(<<>>), JsZero >>),
      JsArray(<< JsStr(<<W(10)>>), JsUnconvertible >>) }

NormalizeInputs ==
    {NullObject}
    \cup { SummaryObject(o, k, w) :
             o \in FieldValues, k \in KeyPointsValues, w \in FieldValues }

InitNormalize ==
    /\ apiKey = TRUE /\ maxAttempts = DefaultMaxAttempts /\ baseDelayMs = DefaultBaseDelayMs
    /\ FetchIdle
    /\ openaiKey = TRUE /\ frequency = "daily" /\ capEnv = 0
    /\ RunIdle
    /\ npc = "called"
    /\ nsObj \in NormalizeInputs
    /\ nsMaxBullets \in 0..MaxBulletsCfg
    /\ nsOut = NoSummary
    /\ ListIdle

\* lines 161-175: the call returns a summary, or String() throws
NormalizeReturn ==
    /\ npc = "called"
    /\ LET r == normalizeSummary(nsObj, nsMaxBullets)
       IN  /\ npc' = IF r.threw THEN "thrown" ELSE "returned"
           /\ nsOut' = r.summary
    /\ UNCHANGED <<nsObj, nsMaxBullets, fetchEnv, fetchVars, runEnv, runVars, listVars>>

NextNormalize == NormalizeReturn

SpecNormalize == InitNormalize /\ [][NextNormalize]_vars

----------------------------------------------------------------------------
(* run(), for any environment *)

Init ==
    /\ apiKey \in BOOLEAN
    /\ openaiKey \in BOOLEAN
    /\ maxAttempts = 2               \* SCRAPINGDOG_MAX_ATTEMPTS=2: one retry per video
    /\ baseDelayMs = DefaultBaseDelayMs
    /\ frequency \in {"daily", "weekly"}
    /\ capEnv \in {Unset} \cup 0..MaxCap
    /\ FetchIdle
    /\ pc = "start" /\ g = 0 /\ c = 0 /\ allVideos = <<>> /\ caught = {}
    /\ videos = <<>> /\ vi = 0
    /\ summarizedItems = <<>> /\ skippedItems = <<>> /\ sectionsOut = <<>>
    /\ delivered = FALSE
    /\ listed = <<>> /\ fetchCalls = <<>> /\ summarizeCalls = <<>>
    /\ NormIdle
    /\ ListIdle

Next ==
    \/ RunStart
    \/ RunChannel
    \/ RunDedup
    \/ RunCallFetch
    \/ (\E res \in RunResponses : FetchAttempt(res)) /\ UNCHANGED <<runEnv, runVars, normVars, listVars>>
    \/ FetchWake /\ UNCHANGED <<runEnv, runVars, normVars, listVars>>
    \/ RunFetchThrew
    \/ RunSkip
    \/ RunSummarize
    \/ RunAssemble
    \/ RunDeliver

Spec == Init /\ [][Next]_vars

----------------------------------------------------------------------------
(* Properties of the fetcher, under SpecFetch *)

FailureCodes ==
    { "no_transcript", "too_short", "scrapingdog_invalid_json", "scrapingdog_http",
      "scrapingdog_fetch_error", "scrapingdog_unknown_error" }

IsValue(r) == r.ok \/ r.reason.code \in FailureCodes

\* C1: with the key set the call never raises, whatever the provider answers
\* on each attempt, and what it returns is {ok: true, ...} or {ok: false,
\* reason}; it raises exactly when SCRAPINGDOG_API_KEY is missing.
C1_NeverRaisesWithKey ==
    /\ fpc = "thrown" => ~apiKey
    /\ ~apiKey => fpc \in {"idle", "thrown"}
    /\ fpc = "returned" => IsValue(result)
    /\ fpc = "attempt" =>
          \A res \in Responses :
             LET o == attemptBody(res, attempt, maxAttempts)
             IN  o.retry \/ IsValue(o.value)

\* a call that met a 5xx page and then a network error on its last attempt
C1_Witness ==
    /\ fpc = "returned" /\ apiKey /\ maxAttempts = 3 /\ requests = 3
    /\ log = <<502, 0, 0>> /\ lastRes.kind = "throw"
    /\ result.reason.code = "scrapingdog_fetch_error"

\* 200 answers carrying segments whose cleaned text has 200 letters or more
ValidSufficient ==
    { HttpOk(Json(JsonObject(TranscriptsArray(e)))) :
        e \in { <<Segment(<<W(200)>>)>>,
                <<Segment(<<W(100)>>), Segment(<<W(99)>>)>>,
                <<Segment(<<W(150)>>), Segment(<<W(150)>>)>> } }

AllTransient(l) == \A i \in 1..Len(l) : l[i] \in TransientStatuses

\* C7: k < maxAttempts transient statuses followed by a valid 200 give Success
\* after k+1 requests and k sleeps (503, 503, 200 with maxAttempts = 3: the
\* third request succeeds after two sleeps); so a transient status ends the
\* call only when it is the answer to the last attempt.
C7_TransientThenSuccess ==
    /\ (/\ fpc = "returned"
        /\ lastRes \in ValidSufficient
        /\ AllTransient(SubSeq(log, 1, Len(log) - 1)))
       => /\ result.ok
          /\ requests = (Len(log) - 1) + 1
          /\ sleeps = Len(log) - 1
          /\ Len(log) - 1 < maxAttempts
    /\ (/\ fpc = "returned"
        /\ lastRes.kind = "http"
        /\ lastRes.status \in TransientStatuses)
       => requests = maxAttempts
    /\ (/\ fpc \in {"sleeping", "returned"}
        /\ requests < maxAttempts
        /\ AllTransient(log))
       => fpc = "sleeping" /\ sleeps = requests

C7_Witness ==
    /\ fpc = "returned" /\ maxAttempts = 3 /\ log = <<503, 503, 200>>
    /\ lastRes \in ValidSufficient /\ result.ok /\ requests = 3 /\ sleeps = 2

BackoffFloor(n) == Min(baseDelayMs * Pow2(n - 1), 8000)

\* C8: the sleep after attempt n lasts d ms with
\* min(base * 2^(n-1), 8000) <= d < min(base * 2^(n-1), 8000) + 250, below
\* 8250; the lower bound does not decrease with n; a sleep is always followed
\* by another attempt, so the call returns with one sleep less than requests.
C8_BackoffBounds ==
    /\ fpc = "sleeping" =>
          /\ BackoffFloor(attempt) <= delay
          /\ delay < BackoffFloor(attempt) + 250
          /\ delay < 8250
          /\ attempt < maxAttempts
          /\ sleeps = requests
    /\ \A n \in 1..maxAttempts, j \in JitterValues :
          backoffDelay(baseDelayMs, n, j) - j <= backoffDelay(baseDelayMs, n + 1, j) - j
    /\ fpc # "sleeping" => delay = 0
    /\ fpc = "returned" /\ requests > 0 => sleeps = requests - 1

\* the capped sleep: base 5000 after the second attempt
C8_Witness ==
    /\ fpc = "sleeping" /\ baseDelayMs = 5000 /\ attempt = 2
    /\ delay = 8000 + 249

\* a parsed body whose transcripts field is absent, not an array, empty or a
\* single string
NoUsableTranscripts(v) ==
    \/ v.transcripts.ty # "array"
    \/ v.transcripts.elems = <<>>
    \/ Len(v.transcripts.elems) = 1 /\ v.transcripts.elems[1].ty = "string"

AnsweredNoTranscripts ==
    /\ fpc \in {"sleeping", "returned"}
    /\ lastRes.kind = "http" /\ lastRes.status = 200 /\ lastRes.data.parses
    /\ NoUsableTranscripts(lastRes.data.val)

ReturnedNoTranscript ==
    /\ fpc = "returned" /\ ~result.ok /\ result.reason.code = "no_transcript"
    /\ sleeps = requests - 1

C10_SuccessTextAtLeast200 ==
    fpc = "returned" /\ result.ok => StrLen(result.text) >= 200

----------------------------------------------------------------------------
(* Properties of run(), under Spec *)

\* C2 as claimed: with both credentials set, no failure of a feed, a channel
\* page, the transcript provider or the summarization collaborator ends run()
\* in a process-level failure.
C2_NoFatalWithCredentials == apiKey /\ openaiKey => pc # "fatal"

\* a step of run() that emits a section
Emits == Len(sectionsOut') = Len(sectionsOut) + 1
Emitted == sectionsOut'[Len(sectionsOut')]

\* C3: every section emitted has summarizedCount + skippedCount equal to the
\* size of the considered set (the deduplicated, filtered videos), which is
\* what totalNew reports, whatever the cap; while the pack is processed every
\* video already handled is in exactly one of the two lists.
C3_CountsAddUp ==
    /\ [](pc \in {"videos", "fetching"} =>
            Len(summarizedItems) + Len(skippedItems) = vi - 1)
    /\ [][Emits =>
            /\ Emitted.totalNew = Len(videos)
            /\ Emitted.summarizedCount + Emitted.skippedCount = Len(videos)]_vars

\* a section of three videos, summarized and skipped, cut by the cap
C3_Witness ==
    \E i \in 1..Len(sectionsOut) :
       /\ sectionsOut[i].totalNew = 3
       /\ sectionsOut[i].summarizedCount >= 1
       /\ sectionsOut[i].skippedCount >= 1
       /\ Len(sectionsOut[i].items) < 3

\* C4: for every cap that is a non-negative integer, a section emitted shows
\* at most cap items and notShownCount = max(0, considered - shown).
C4_CapAndNotShown ==
    [][Emits =>
         /\ Len(Emitted.items) <= getCapPerSection(frequency, capEnv)
         /\ Emitted.notShownCount = Max(0, Len(videos) - Len(Emitted.items))]_vars

\* a section that shows cap = 1 items and hides two
C4_Witness ==
    /\ capEnv = 1
    /\ \E i \in 1..Len(sectionsOut) :
          /\ Len(sectionsOut[i].items) = 1
          /\ sectionsOut[i].notShownCount = 2

IndicesOf(id, seq) == { j \in 1..Len(seq) : seq[j].videoId = id }
LastIndexOf(id, seq) ==
    CHOOSE j \in IndicesOf(id, seq) : \A k \in IndicesOf(id, seq) : k <= j

\* C5: of the records pushed for a pack that share a video identifier, the
\* deduplicated set holds exactly one, the one pushed last.
C5_LastWriteWins ==
    pc \in {"videos", "fetching"} =>
       /\ \A i \in 1..Len(allVideos) :
             LET id == allVideos[i].videoId
             IN  /\ Cardinality(IndicesOf(id, videos)) = 1
                 /\ \A j \in IndicesOf(id, videos) :
                       videos[j] = allVideos[LastIndexOf(id, allVideos)]
       /\ \A j \in 1..Len(videos) : IndicesOf(videos[j].videoId, allVideos) # {}

\* channel B's copy of video a pushed before channel C's, which survives
C5_Witness ==
    /\ pc = "videos"
    /\ \E i, j \in 1..Len(allVideos) :
          /\ i < j
          /\ allVideos[i].videoId = "a" /\ allVideos[i].channelName = "B"
          /\ allVideos[j].videoId = "a" /\ allVideos[j].channelName = "C"
          /\ allVideos[i].publishedAt # allVideos[j].publishedAt
          /\ \E k \in 1..Len(videos) : videos[k] = allVideos[j]

LaterThan(p, vids) == { j \in 1..Len(vids) : vids[j].publishedAt > p }
NotEarlierThan(p, vids) == { j \in 1..Len(vids) : vids[j].publishedAt >= p }

\* C6: the items of a section are in descending order of publication,
\* summarized or skipped alike: the k-th item is a considered video with the
\* k-th latest timestamp (T1 > T2 > T3 gives exactly T1, T2, T3).
C6_ItemsNewestFirst ==
    [][Emits =>
         LET items == Emitted.items
         IN  /\ \A k \in 1..Len(items) :
                   /\ \A m \in 1..Len(items) :
                         k < m => items[k].publishedAt >= items[m].publishedAt
                   /\ Cardinality(LaterThan(items[k].publishedAt, videos)) <= k - 1
                   /\ Cardinality(NotEarlierThan(items[k].publishedAt, videos)) >= k
                   /\ \E j \in 1..Len(videos) :
                         /\ videos[j].videoId = items[k].videoId
                         /\ videos[j].publishedAt = items[k].publishedAt
                         /\ videos[j].channelName = items[k].channelName
             /\ \A k, m \in 1..Len(items) :
                   k # m => items[k].videoId # items[m].videoId]_vars

\* three videos of distinct timestamps, the summarized one between two skipped
C6_Witness ==
    \E i \in 1..Len(sectionsOut) :
       LET items == sectionsOut[i].items
       IN  /\ Len(items) = 3
           /\ items[1].publishedAt > items[2].publishedAt
           /\ items[2].publishedAt > items[3].publishedAt
           /\ items[1].status = "skipped"
           /\ items[2].status = "summarized"
           /\ items[3].status = "skipped"

----------------------------------------------------------------------------
(* Properties of normalizeSummary, under SpecNormalize *)

\* the places of the key points that are not blank, in input order
NonBlank(elems) == { i \in 1..Len(elems) : Trim(StringOf(elems[i])) # <<>> }
NthOf(set, n) == CHOOSE i \in set : Cardinality({ j \in set : j < i }) = n - 1
InputKeyPoints ==
    IF nsObj.isRecord /\ nsObj.key_points.ty = "array" THEN nsObj.key_points.elems ELSE <<>>

\* the field-length and non-emptiness conditions on a summary
WellFormedSummary(sm, maxBullets, input) ==
    /\ sm.one_liner # <<>> /\ StrLen(sm.one_liner) >= 1 /\ StrLen(sm.one_liner) <= 220
    /\ sm.who_should_watch # <<>> /\ StrLen(sm.who_should_watch) >= 1
    /\ StrLen(sm.who_should_watch) <= 180
    /\ Len(sm.key_points) = Min(maxBullets, Cardinality(NonBlank(input)))
    /\ \A k \in 1..Len(sm.key_points) :
          /\ sm.key_points[k] # <<>>
          /\ StrLen(sm.key_points[k]) >= 1
          /\ Trim(sm.key_points[k]) = sm.key_points[k]
          /\ sm.key_points[k] = Trim(StringOf(input[NthOf(NonBlank(input), k)]))

\* C11 as claimed: for any input normalizeSummary never raises, and returns a
\* one-liner of 1..220 characters, an audience of 1..180 characters and at
\* most maxBullets key points, each non-empty and trimmed, in input order.
C11_NormalizeTotal ==
    /\ npc # "thrown"
    /\ npc = "returned" => WellFormedSummary(nsOut, nsMaxBullets, InputKeyPoints)

\* what holds of every call: the call raises exactly when String() is applied
\* to a value that has no string conversion, and every summary returned
\* satisfies the conditions
C11_TotalOnConvertible ==
    /\ npc = "thrown" =>
          /\ nsObj.isRecord
          /\ \/ StringThrows(nsObj.one_liner)
             \/ StringThrows(nsObj.who_should_watch)
             \/ \E i \in 1..Len(InputKeyPoints) : StringThrows(InputKeyPoints[i])
    /\ npc = "returned" => WellFormedSummary(nsOut, nsMaxBullets, InputKeyPoints)

----------------------------------------------------------------------------
(* Properties of run(), under Spec: channels and credentials *)

\* C12: a channel whose page resolution or feed fetch fails contributes no
\* record to its pack, and the step that handles the failure changes nothing
\* but the loop position: the records of the channels before it are kept, the
\* next channel (or the rest of the pack, and the later packs) is processed
\* from the state an absent channel would have left.
C12_ChannelFailureIsolated ==
    /\ [](/\ \A i \in 1..Len(allVideos) : allVideos[i].channelName \notin caught
          /\ \A i \in 1..Len(videos) : videos[i].channelName \notin caught)
    /\ [][caught' # caught /\ caught' # {} =>
            /\ pc = "channels" /\ pc' = "channels"
            /\ g' = g /\ c' = c + 1
            /\ CHANNEL_PACKS[g].channels[c].name \in caught'
            /\ allVideos' = allVideos
            /\ sectionsOut' = sectionsOut
            /\ UNCHANGED <<videos, vi, summarizedItems, skippedItems, delivered,
                           fetchVars, fetchEnv, runEnv>>]_vars

\* pack 1 was emitted; in pack 2 channel C failed after channel B had listed
\* two videos, which are the ones being processed
C12_Witness ==
    /\ pc = "videos" /\ g = 2 /\ caught = {"C"}
    /\ Len(sectionsOut) = 1 /\ sectionsOut[1].totalNew = 0
    /\ Len(videos) = 2
    /\ \A i \in 1..Len(videos) : videos[i].channelName = "B"

\* C13 as claimed: when SCRAPINGDOG_API_KEY or OPENAI_API_KEY is missing the
\* run never reaches delivery, whatever the feeds and the provider answer.
C13_MissingCredentialFatal ==
    ~apiKey \/ ~openaiKey => ~delivered /\ pc \notin {"email", "done"}

\* the largest MAX_AGE_DAYS_DAILY / MAX_AGE_DAYS_WEEKLY the filter is tried with
MaxAgeCfg == 21

Parses(p) == p \in 1..Len(StampDays)
NotOlderThan(p, days) == StampDays[p] >= NowDay - days

\* the records of a listing that parse and are not older than now - days
RECURSIVE KeptOf(_, _, _)
KeptOf(vids, name, days) ==
    IF vids = <<>> THEN <<>>
    ELSE (IF Parses(Head(vids).publishedAt) /\ NotOlderThan(Head(vids).publishedAt, days)
          THEN <<[videoId |-> Head(vids).videoId, publishedAt |-> Head(vids).publishedAt,
                  channelName |-> name]>>
          ELSE <<>>) \o KeptOf(Tail(vids), name, days)

\* a step of run() in which the listing of a channel succeeds
Lists ==
    /\ pc = "channels" /\ c' = c + 1 /\ caught' = caught
    /\ ~CHANNEL_PACKS[g].channels[c].placeholder

\* C14: isWithinMaxAge keeps a timestamp iff it parses and is not older than
\* now - maxAgeDays, and excludes an unparsable one for every maxAgeDays; the
\* records a channel adds to its pack are exactly those of its listing that
\* pass, so no record of the considered set has an unparsable timestamp.
C14_AgeFilter ==
    /\ [](/\ pc = "start" =>       \* the function itself, whatever the state
               \A d \in 0..MaxAgeCfg :
                  /\ \A p \in 1..BadStamp :
                        isWithinMaxAge(p, d) <=> (Parses(p) /\ NotOlderThan(p, d))
                  /\ ~isWithinMaxAge(BadStamp, d)
          /\ \A i \in 1..Len(allVideos) :
                /\ Parses(allVideos[i].publishedAt)
                /\ NotOlderThan(allVideos[i].publishedAt, getMaxAgeDays(frequency))
          /\ \A i \in 1..Len(videos) :
                /\ Parses(videos[i].publishedAt)
                /\ NotOlderThan(videos[i].publishedAt, getMaxAgeDays(frequency)))
    /\ [][Lists =>
            LET ch == CHANNEL_PACKS[g].channels[c]
            IN  \E world \in ChannelWorlds(ch.name) :
                   /\ ~fetchLatestVideosFromChannelUrl(world).threw
                   /\ \E vids \in fetchLatestVideosFromChannelUrl(world).vids :
                         allVideos' =
                           allVideos \o KeptOf(vids, ch.name, getMaxAgeDays(frequency))]_vars

\* channel B listed c (unparsable), b (today) and a (5 days old) for a weekly
\* digest: b and a are kept, c is not
C14_Witness ==
    /\ pc = "channels" /\ g = 2 /\ c = 2 /\ frequency = "weekly"
    /\ allVideos = << [videoId |-> "b", publishedAt |-> 5, channelName |-> "B"],
                      [videoId |-> "a", publishedAt |-> 2, channelName |-> "B"] >>

\* a step of run() that ends the processing of a pack
EndsPack == pc = "videos" /\ pc' \in {"channels", "email"}

\* C15: the sections handed to delivery are one per pack of CHANNEL_PACKS, in
\* its order: the pack being processed is the one after the sections emitted
\* so far, the end of a pack emits its section whatever the pack collected,
\* and a pack that collected no video gives totalNew = 0 and no item.
C15_OneSectionPerPack ==
    /\ [](/\ Len(sectionsOut) <= Len(CHANNEL_PACKS)
          /\ \A i \in 1..Len(sectionsOut) : sectionsOut[i].label = CHANNEL_PACKS[i].label
          /\ pc \in {"channels", "videos", "fetching"} => Len(sectionsOut) = g - 1
          /\ pc \in {"email", "done"} \/ delivered => Len(sectionsOut) = Len(CHANNEL_PACKS))
    /\ [][EndsPack =>
            /\ Emits
            /\ SubSeq(sectionsOut', 1, Len(sectionsOut)) = sectionsOut
            /\ Emitted.label = CHANNEL_PACKS[g].label
            /\ videos = <<>> => Emitted.totalNew = 0 /\ Emitted.items = <<>>]_vars
    /\ [][delivered' # delivered => delivered' /\ sectionsOut' = sectionsOut]_vars

\* delivered: the first pack collected no video (its channel failed or listed
\* nothing fresh) and the second pack has three videos
C15_Witness ==
    /\ delivered /\ pc = "done" /\ Len(sectionsOut) = 2
    /\ sectionsOut[1].label = "General News"
    /\ sectionsOut[1].totalNew = 0 /\ sectionsOut[1].items = <<>>
    /\ sectionsOut[2].label = "AI News" /\ sectionsOut[2].totalNew = 3

----------------------------------------------------------------------------
(* Properties of the fetcher, under SpecFetch: retries *)

\* the latest request was answered, and res is the answer
Answered == fpc \in {"sleeping", "returned"} /\ requests >= 1

NonTransientFailure ==
    /\ Answered /\ lastRes.kind = "http"
    /\ ~(lastRes.status >= 200 /\ lastRes.status <= 299)
    /\ lastRes.status \notin TransientStatuses

\* C16 as claimed: a non-transient HTTP failure with attempts remaining is
\* followed by a sleep and another request.
C16_AsClaimed == NonTransientFailure /\ requests < maxAttempts => fpc = "sleeping"

\* C16, amended: an HTTP failure with a non-transient status ends the call at
\* once, whatever attempts remain: no sleep follows, and the Failure returned
\* carries provider and status.
C16_NonTransientReturnsAtOnce ==
    NonTransientFailure =>
       /\ fpc = "returned" /\ ~result.ok
       /\ result.reason.code = "scrapingdog_http"
       /\ result.reason.status = lastRes.status
       /\ sleeps = requests - 1

\* a 404 answered to the first of three attempts
C16_Witness ==
    /\ fpc = "returned" /\ maxAttempts = 3 /\ requests = 1 /\ sleeps = 0
    /\ log = <<404>> /\ result.reason.code = "scrapingdog_http"
    /\ result.reason.status = 404

\* C17: a fetch-level exception is followed by a sleep and another attempt
\* while attempts remain; on the last attempt the call returns Failure with
\* reason scrapingdog_fetch_error:<message>, the message being the error's,
\* whitespace collapsed, cut to 200 characters.
C17_NetworkErrorRetried ==
    Answered /\ lastRes.kind = "throw" =>
       IF requests < maxAttempts
       THEN fpc = "sleeping" /\ sleeps = requests
       ELSE /\ fpc = "returned" /\ ~result.ok
            /\ result.reason.code = "scrapingdog_fetch_error"
            /\ StrLen(result.reason.detail) <= 200
            /\ StrLen(result.reason.detail) = Min(200, StrLen(CollapseWs(lastRes.msg)))
            /\ requests = maxAttempts /\ sleeps = requests - 1

\* two network errors with maxAttempts = 2, the message of the second longer
\* than 200 characters
C17_Witness ==
    /\ fpc = "returned" /\ maxAttempts = 2 /\ log = <<0, 0>> /\ sleeps = 1
    /\ lastRes.kind = "throw" /\ StrLen(lastRes.msg) > 200
    /\ result.reason.code = "scrapingdog_fetch_error"
    /\ StrLen(result.reason.detail) = 200

\* C18 as claimed: a call retries at most once after a 200 body that is not
\* parseable JSON; such a body otherwise gives Failure{invalid_json}.
C18_AtMostOneInvalidJsonRetry ==
    /\ jsonRetries <= 1
    /\ Answered /\ lastRes.kind = "http" /\ lastRes.status = 200 /\ ~lastRes.data.parses =>
          IF jsonRetries = 1 /\ fpc = "sleeping" THEN sleeps = requests
          ELSE /\ fpc = "returned"
               /\ result.reason.code = "scrapingdog_invalid_json"

\* what holds: a 200 body that does not parse is retried as long as attempts
\* remain, and gives Failure{invalid_json} on the last attempt
C18_InvalidJsonRetriedWhileAttemptsRemain ==
    /\ jsonRetries <= Max(0, maxAttempts - 1)
    /\ Answered /\ lastRes.kind = "http" /\ lastRes.status = 200 /\ ~lastRes.data.parses =>
          IF requests < maxAttempts
          THEN fpc = "sleeping" /\ sleeps = requests
          ELSE /\ fpc = "returned"
               /\ result.reason.code = "scrapingdog_invalid_json"

\* C19: with maxAttempts >= 1 a call issues at most maxAttempts requests, and
\* returns after one sleep less than requests; when every answer had a
\* transient status it issued exactly maxAttempts requests and returns a
\* Failure carrying provider and the last status; every call that entered the
\* loop returns.
C19_BoundedAttempts ==
    /\ [](maxAttempts >= 1 =>
            /\ requests <= maxAttempts
            /\ sleeps <= requests
            /\ fpc = "returned" =>
                  /\ requests >= 1 /\ sleeps = requests - 1
                  /\ AllTransient(log) =>
                        /\ requests = maxAttempts
                        /\ ~result.ok
                        /\ result.reason.code = "scrapingdog_http"
                        /\ result.reason.status = log[Len(log)])
    /\ (fpc \in {"attempt", "sleeping"} ~> fpc = "returned")

\* 429, 500, 504 with maxAttempts = 3
C19_Witness ==
    /\ fpc = "returned" /\ maxAttempts = 3 /\ requests = 3 /\ sleeps = 2
    /\ log = <<429, 500, 504>>
    /\ result.reason.code = "scrapingdog_http" /\ result.reason.status = 504

----------------------------------------------------------------------------
(* Properties of run(), under Spec: the cap *)

\* C20: the items a section shows are min(cap, considered) in number, and
\* every considered video it does not show was published no later than every
\* item shown, summarized or skipped alike.
C20_OldestDropped ==
    [][Emits =>
         LET items == Emitted.items
             shown == { items[k].videoId : k \in 1..Len(items) }
         IN  /\ Len(items) = Min(getCapPerSection(frequency, capEnv), Len(videos))
             /\ \A j \in 1..Len(videos) :
                   videos[j].videoId \notin shown =>
                      \A k \in 1..Len(items) :
                         videos[j].publishedAt <= items[k].publishedAt]_vars

\* cap 2 and three considered videos: a skipped and a summarized item are
\* shown, the first newer than the second, and one video is not
C20_Witness ==
    /\ capEnv = 2
    /\ \E i \in 1..Len(sectionsOut) :
          LET items == sectionsOut[i].items
          IN  /\ sectionsOut[i].totalNew = 3
              /\ sectionsOut[i].notShownCount = 1
              /\ Len(items) = 2
              /\ items[1].status = "skipped" /\ items[2].status = "summarized"
              /\ items[1].publishedAt > items[2].publishedAt

----------------------------------------------------------------------------
(* fetchLatestVideosFromChannelUrl called on its own, for any channel page and
   any feed of at most MaxFeedLen entries *)

MaxFeedLen == 5

\* the <entry> blocks a feed is made of: four well-formed ones, two of them
\* of the same timestamp, and one without <title>, one without a link holding
\* v=, one without <published>
FeedEntries ==
    { Entry("a", 1), Entry("a", 3), Entry("b", 3), Entry("c", 5),
      EntryNoTitle("b", 5), Entry(NoVideoId, 4), Entry("c", NoPublished) }

Feeds == UNION { [1..n -> FeedEntries] : n \in 0..MaxFeedLen }

ListerWorlds ==
    { PageFails, PageUnreachable, NoChannelId, RssFails }
    \cup { Feed(doc) : doc \in Feeds }

InitLister ==
    /\ apiKey = TRUE /\ maxAttempts = DefaultMaxAttempts /\ baseDelayMs = DefaultBaseDelayMs
    /\ FetchIdle
    /\ openaiKey = TRUE /\ frequency = "daily" /\ capEnv = 0
    /\ RunIdle
    /\ NormIdle
    /\ lpc = "called"
    /\ lWorld \in ListerWorlds
    /\ lOut = <<>>

\* lines 45-50: the call returns the first records of the parsed feed, or
\* resolveChannelId or the feed request throws
ListerReturn ==
    /\ lpc = "called"
    /\ LET r == fetchLatestVideosFromChannelUrl(lWorld)
       IN  IF r.threw
           THEN lpc' = "thrown" /\ lOut' = <<>>
           ELSE lpc' = "returned" /\ \E vids \in r.vids : lOut' = vids
    /\ UNCHANGED <<lWorld, fetchEnv, fetchVars, runEnv, runVars, normVars>>

NextLister == ListerReturn

SpecLister == InitLister /\ [][NextLister]_vars

----------------------------------------------------------------------------
(* Lines 163-209 of run() for one fetched video, for any answer of the
   summarization service *)

\* the non-2xx statuses and the bodies the summarization service may answer
SummarizerErrorStatuses == {400, 401, 429, 500, 503}
SummarizerErrorBodies ==
    { <<>>, <<S(2)>>, <<W(50)>>, <<S(1), W(118), S(3), W(5)>>, <<HtmlTag, W(300)>> }

AllSummarizerAnswers ==
    SummarizerAnswers
    \cup { SummarizerHttpError(st, b) :
               st \in SummarizerErrorStatuses, b \in SummarizerErrorBodies }

\* run() has listed pack 1, whose channel A gave one fresh video, and the
\* fetcher has returned its transcript at the first request
InitSummarize ==
    /\ apiKey = TRUE
    /\ openaiKey \in BOOLEAN
    /\ maxAttempts = 2
    /\ baseDelayMs = DefaultBaseDelayMs
    /\ frequency \in {"daily", "weekly"}
    /\ capEnv \in {Unset} \cup 0..MaxCap
    /\ fpc = "returned" /\ attempt = 1 /\ requests = 1 /\ sleeps = 0 /\ delay = 0
    /\ log = <<200>> /\ jsonRetries = 0
    /\ lastRes = HttpOk(Json(JsonObject(TranscriptsArray(<<Segment(<<W(200)>>)>>))))
    /\ result = Success(<<W(200)>>, 1)
    /\ pc = "fetching" /\ g = 1 /\ c = 3 /\ caught = {}
    /\ LET v == [videoId |-> "a", publishedAt |-> 5, channelName |-> "A"]
       IN  /\ listed = <<v>> /\ allVideos = <<v>> /\ videos = <<v>>
           /\ fetchCalls = <<v>>
    /\ vi = 1
    /\ summarizeCalls = <<>>
    /\ summarizedItems = <<>> /\ skippedItems = <<>> /\ sectionsOut = <<>>
    /\ delivered = FALSE
    /\ NormIdle
    /\ ListIdle

NextSummarize ==
    \/ RunSummarizeWith(AllSummarizerAnswers)
    \/ RunAssemble

SpecSummarize == InitSummarize /\ [][NextSummarize]_vars

----------------------------------------------------------------------------
(* The order of the recency filter and the deduplication *)

\* a record whose timestamp parses and is within the digest's window
Fresh(r) ==
    Parses(r.publishedAt) /\ NotOlderThan(r.publishedAt, getMaxAgeDays(frequency))

FreshOf(seq) == SelectSeq(seq, Fresh)

\* the channels of the pack are being listed; the pack was just deduplicated
\* (listed, allVideos and videos do not change while its videos are processed)
Listing == pc = "channels"
Deduplicated == pc = "videos" /\ vi = 1

\* C21 as stated: the deduplication runs on everything the channels listed
\* and the filter afterwards, so a video is considered iff the last listed
\* copy of its identifier, stale or fresh, is fresh, and that copy survives.
C21_AsClaimed ==
    Deduplicated =>
       /\ \A i \in 1..Len(listed) :
             LET last == listed[LastIndexOf(listed[i].videoId, listed)]
             IN  IF Fresh(last)
                 THEN \E j \in 1..Len(videos) : videos[j] = last
                 ELSE IndicesOf(last.videoId, videos) = {}
       /\ \A j \in 1..Len(videos) :
             videos[j] = listed[LastIndexOf(videos[j].videoId, listed)]

\* C21, amended: the recency filter runs on each channel's listing before the
\* deduplication, so the deduplication sees the fresh records only and the
\* survivor of an identifier is the last listed among its fresh copies, even
\* when a stale copy of it was listed later.
C21_FilterBeforeDedup ==
    /\ (Listing \/ Deduplicated) => allVideos = FreshOf(listed)
    /\ Deduplicated =>
          /\ \A i \in 1..Len(listed) :
                Fresh(listed[i]) =>
                   LET id == listed[i].videoId
                   IN  /\ Cardinality(IndicesOf(id, videos)) = 1
                       /\ \A j \in IndicesOf(id, videos) :
                             videos[j] = FreshOf(listed)[LastIndexOf(id, FreshOf(listed))]
          /\ \A j \in 1..Len(videos) :
                IndicesOf(videos[j].videoId, FreshOf(listed)) # {}

\* a fresh copy of a video was listed, a stale copy of it was listed later by
\* another channel, and the fresh copy is in the considered set
C21_Witness ==
    /\ pc = "videos" /\ vi = 1
    /\ \E i, k \in 1..Len(listed) :
          /\ i < k /\ listed[i].videoId = listed[k].videoId
          /\ listed[i].channelName # listed[k].channelName
          /\ Fresh(listed[i]) /\ ~Fresh(listed[k])
          /\ k = LastIndexOf(listed[k].videoId, listed)
          /\ \E j \in 1..Len(videos) : videos[j] = listed[i]

----------------------------------------------------------------------------
(* One call at a time *)

FetchInFlight == fpc \in {"attempt", "sleeping"}
FetchBegins == fpc = "idle" /\ fpc' # "idle"
FetchSettled == fpc \in {"returned", "thrown"}

\* C22: run() works on one video at a time.  A call of the fetcher is pending
\* only while run() waits for it; run() leaves the wait only once the call has
\* returned or thrown, retries and sleeps included; the summarizer is called
\* only then, with no fetch pending; and a fetch begins, and a channel or a
\* pack is entered, only when every earlier fetch and summarization of the
\* pack has completed.
C22_OneCallAtATime ==
    /\ [](/\ fpc # "idle" => pc = "fetching"
          /\ pc = "fetching" => Len(fetchCalls) = vi)
    /\ [][/\ FetchBegins =>
              /\ pc = "videos" /\ pc' = "fetching"
              /\ Len(fetchCalls) = vi - 1
              /\ Len(summarizedItems) + Len(skippedItems) = vi - 1
              /\ Len(summarizeCalls) = Len(summarizedItems)
          /\ (pc = "fetching" /\ pc' # "fetching") =>
              /\ FetchSettled
              /\ fpc' = "idle"
          /\ Len(summarizeCalls') > Len(summarizeCalls) =>
              /\ fpc = "returned" /\ result.ok /\ fpc' = "idle"
          /\ (c' # c \/ g' # g) =>
              /\ fpc = "idle" /\ fpc' = "idle"
              /\ Len(summarizeCalls) = Len(summarizedItems)
              /\ Len(fetchCalls) = Len(summarizedItems) + Len(skippedItems)]_vars

\* the fetch of the second video of a pack sleeps before a retry, after the
\* first video was fetched and summarized
C22_Witness ==
    /\ pc = "fetching" /\ vi = 2 /\ fpc = "sleeping"
    /\ Len(summarizedItems) = 1 /\ Len(summarizeCalls) = 1 /\ Len(fetchCalls) = 2

----------------------------------------------------------------------------
(* The calls made for the videos of a pack *)

Ids(seq) == { seq[i].videoId : i \in 1..Len(seq) }
NoCopies(seq) == Cardinality(Ids(seq)) = Len(seq)
PackDone == pc = "videos" /\ vi > Len(videos)
SummarizedVideos == [i \in 1..Len(summarizeCalls) |-> summarizeCalls[i].video]
FetchAnswered == pc = "fetching" /\ fpc = "returned" /\ pc' # "fetching"

\* C23: the calls of the fetcher made for a pack are for the videos of its
\* considered set, in order, one per video identifier and never for a stale
\* record, and when the pack is done every video of the set has had its call;
\* a fetch that returns Success is followed by one call of the summarizer for
\* that video, a fetch that returns Failure by none, and no video is
\* summarized twice.
C23_OneCallPerVideo ==
    /\ [](/\ Len(fetchCalls) <= Len(videos)
          /\ fetchCalls = SubSeq(videos, 1, Len(fetchCalls))
          /\ NoCopies(fetchCalls)
          /\ \A i \in 1..Len(fetchCalls) : Fresh(fetchCalls[i])
          /\ NoCopies(SummarizedVideos)
          /\ Ids(SummarizedVideos) \subseteq Ids(fetchCalls)
          /\ PackDone => fetchCalls = videos)
    /\ [][/\ FetchAnswered =>
              IF result.ok
              THEN SummarizedVideos' = Append(SummarizedVideos, videos[vi])
              ELSE summarizeCalls' = summarizeCalls
          /\ Len(summarizeCalls') > Len(summarizeCalls) =>
              FetchAnswered /\ result.ok]_vars

\* a pack is done: two channels listed the same video and one a stale record,
\* every video of the set was fetched, one fetch failed and one succeeded
C23_Witness ==
    /\ PackDone /\ Len(videos) >= 2
    /\ ~NoCopies(listed)
    /\ \E i \in 1..Len(listed) : ~Fresh(listed[i])
    /\ Len(fetchCalls) = Len(videos)
    /\ skippedItems # <<>>
    /\ Len(summarizeCalls) = Len(summarizedItems) /\ summarizeCalls # <<>>

----------------------------------------------------------------------------
(* What a transcript Failure becomes *)

DisplayReasons == {NoTranscriptReason, OtherReason}
ReasonFor(code) == IF code = "no_transcript" THEN NoTranscriptReason ELSE OtherReason
SkippedOf(seq) == SelectSeq(seq, LAMBDA it : it.status = "skipped")

\* C24: a fetch that returns Failure adds one skipped item for the video and
\* run() goes on with the next one; the item's reason is the no-transcript
\* text for the code no_transcript and the other fixed text for every other
\* code, whatever status or detail the Failure carries, so the reason of every
\* skipped item, collected or displayed, is one of the two fixed texts.
C24_FailureBecomesSkipped ==
    /\ [](/\ pc = "start" =>       \* the item built, for every reason code
               \A code \in FailureCodes, status \in {0} \cup ErrorStatuses,
                  detail \in {<<>>, <<W(200)>>, <<HtmlTag, W(80)>>} :
                  LET v == [videoId |-> "a", publishedAt |-> 5, channelName |-> "A"]
                      items == pushSkipped(<<>>, v, Reason(code, status, detail))
                  IN  /\ Len(items) = 1
                      /\ items[1].status = "skipped"
                      /\ items[1].reason = ReasonFor(code)
          /\ \A i \in 1..Len(skippedItems) : skippedItems[i].reason \in DisplayReasons
          /\ \A k \in 1..Len(sectionsOut) :
                \A i \in 1..Len(sectionsOut[k].items) :
                   sectionsOut[k].items[i].status = "skipped" =>
                      sectionsOut[k].items[i].reason \in DisplayReasons)
    /\ [][(FetchAnswered /\ ~result.ok) =>
              /\ pc' = "videos" /\ vi' = vi + 1
              /\ summarizedItems' = summarizedItems
              /\ Len(skippedItems') = Len(skippedItems) + 1
              /\ SubSeq(skippedItems', 1, Len(skippedItems)) = skippedItems
              /\ LET it == skippedItems'[Len(skippedItems')]
                 IN  /\ it.status = "skipped"
                     /\ it.videoId = videos[vi].videoId
                     /\ it.reason = ReasonFor(result.reason.code)]_vars

\* a pack with a video skipped for no_transcript and one skipped after the
\* provider answered 503 to every attempt
C24_Witness ==
    /\ pc = "videos"
    /\ \E i, j \in 1..Len(skippedItems) :
          /\ skippedItems[i].reason = NoTranscriptReason
          /\ skippedItems[j].reason = OtherReason

----------------------------------------------------------------------------
(* The placeholder summaries *)

PlaceholderKinds == {"http_error", "empty_output", "unparseable_output"}
SummarizerAnswered ==
    /\ Len(summarizeCalls') = Len(summarizeCalls) + 1
    /\ summarizeCalls'[Len(summarizeCalls')].answer.kind \in PlaceholderKinds

\* C25: when the summarization service answers a call with a non-2xx
\* response, an empty output or an unparseable output, run() goes on and the
\* video becomes one more summarized item, and no skipped item, whose summary
\* has no key point, a one-liner of 1 to 220 characters and an audience of 1
\* to 180 characters; the section of the pack counts the item in
\* summarizedCount and not in skippedCount.
C25_PlaceholderIsSummarized ==
    /\ [][SummarizerAnswered =>
              /\ pc' = "videos" /\ vi' = vi + 1
              /\ skippedItems' = skippedItems
              /\ Len(summarizedItems') = Len(summarizedItems) + 1
              /\ SubSeq(summarizedItems', 1, Len(summarizedItems)) = summarizedItems
              /\ LET it == summarizedItems'[Len(summarizedItems')]
                 IN  /\ it.status = "summarized"
                     /\ it.videoId = videos[vi].videoId
                     /\ it.summary.key_points = <<>>
                     /\ StrLen(it.summary.one_liner) \in 1..220
                     /\ StrLen(it.summary.who_should_watch) \in 1..180]_vars
    /\ [][Emits =>
              /\ Emitted.summarizedCount = Len(summarizedItems)
              /\ Emitted.skippedCount = Len(skippedItems)]_vars

\* the section of pack 1 counts as summarized the video whose summarization
\* was answered 503 with an HTML page
C25_Witness ==
    /\ Len(sectionsOut) = 1
    /\ sectionsOut[1].summarizedCount = 1 /\ sectionsOut[1].skippedCount = 0
    /\ \E i \in 1..Len(sectionsOut[1].items) :
          /\ sectionsOut[1].items[i].status = "summarized"
          /\ sectionsOut[1].items[i].summary.key_points = <<>>
          /\ StrLen(sectionsOut[1].items[i].summary.who_should_watch) = 135

----------------------------------------------------------------------------
(* What the Video Lister returns *)

\* an <entry> with a title, a link holding a video identifier and a timestamp
Complete(b) == b.hasTitle /\ b.videoId # NoVideoId /\ b.published # NoPublished
CompleteAt(doc) == { i \in 1..Len(doc) : Complete(doc[i]) }
Descending(seq) ==
    \A i, j \in 1..Len(seq) : i < j => seq[i].publishedAt >= seq[j].publishedAt

\* C26: a listing throws only when the channel page or the feed cannot be
\* had, never because of an entry; what it returns are records of distinct
\* complete entries of the feed, as many as there are up to
\* MAX_VIDEOS_PER_CHANNEL, in descending order of their timestamps, and no
\* complete entry left out is more recent than a returned one.
C26_MostRecentFirst ==
    /\ lpc = "thrown" => (~resolveChannelId(lWorld) \/ lWorld.rss # "ok")
    /\ lpc = "returned" =>
          LET doc == lWorld.doc
          IN  /\ resolveChannelId(lWorld) /\ lWorld.rss = "ok"
              /\ Len(lOut) = Min(MAX_VIDEOS_PER_CHANNEL, Cardinality(CompleteAt(doc)))
              /\ Descending(lOut)
              /\ \E from \in [1..Len(lOut) -> CompleteAt(doc)] :
                    /\ \A i, j \in 1..Len(lOut) : i # j => from[i] # from[j]
                    /\ \A i \in 1..Len(lOut) :
                          /\ lOut[i].videoId = doc[from[i]].videoId
                          /\ lOut[i].publishedAt = doc[from[i]].published
                    /\ \A k \in CompleteAt(doc) :
                          (\A i \in 1..Len(lOut) : from[i] # k) =>
                             \A i \in 1..Len(lOut) :
                                doc[k].published <= lOut[i].publishedAt

\* a feed of five entries, four of them complete and one without a title: the
\* three most recent complete ones are returned
C26_Witness ==
    /\ lpc = "returned"
    /\ Len(lWorld.doc) = 5
    /\ Cardinality(CompleteAt(lWorld.doc)) = 4
    /\ \E i \in 1..5 : ~lWorld.doc[i].hasTitle
    /\ Len(lOut) = 3
    /\ lOut[1].publishedAt > lOut[3].publishedAt

----------------------------------------------------------------------------
(* The result after the retry loop *)

UnknownError == fpc = "returned" /\ result.reason.code = "scrapingdog_unknown_error"

\* C27 as stated: whatever SCRAPINGDOG_MAX_ATTEMPTS is, a call that returns
\* has issued at least one request and does not return the result of line 105.
C27_NeverUnknownError ==
    fpc = "returned" => (requests >= 1 /\ ~UnknownError)

\* what holds: the result of line 105 is returned exactly by the calls made
\* with the key set and maxAttempts below 1, which issue no request
C27_UnknownErrorIffNoAttempt ==
    /\ UnknownError => (maxAttempts < 1 /\ requests = 0)
    /\ (fpc = "returned" /\ maxAttempts < 1) => UnknownError
    /\ (fpc = "returned" /\ maxAttempts >= 1) => requests >= 1

----------------------------------------------------------------------------
(* The work one pack can cause *)

\* the channels of pack k that are listed: those that are no placeholder
ListedChannels(k) ==
    { i \in 1..Len(CHANNEL_PACKS[k].channels) : ~CHANNEL_PACKS[k].channels[i].placeholder }
\* those of them already listed when run() is at channel c
ListedSoFar == { i \in ListedChannels(g) : i < c }
PackBudget(k) == Cardinality(ListedChannels(k)) * MAX_VIDEOS_PER_CHANNEL

\* C28: a listing adds at most MAX_VIDEOS_PER_CHANNEL records to those listed
\* for the pack, before any is filtered out or deduplicated, so the records
\* listed, those kept, the considered set and the calls of the fetcher each
\* number at most (channels of the pack that are no placeholder) x
\* MAX_VIDEOS_PER_CHANNEL; requests are issued one at a time inside those
\* calls only, at most maxAttempts in each, which bounds the requests of the
\* pack by that number x maxAttempts.
C28_PackBudget ==
    /\ [](pc \in {"channels", "videos", "fetching"} =>
            /\ Len(listed) <= Cardinality(ListedSoFar) * MAX_VIDEOS_PER_CHANNEL
            /\ Len(allVideos) <= Len(listed)
            /\ Len(videos) <= Len(allVideos)
            /\ Len(videos) <= PackBudget(g)
            /\ Len(fetchCalls) <= Len(videos)
            /\ requests <= maxAttempts
            /\ (Len(fetchCalls) - 1) * maxAttempts + requests
                  <= PackBudget(g) * maxAttempts)
    /\ [][/\ Lists => Len(listed') <= Len(listed) + MAX_VIDEOS_PER_CHANNEL
          /\ requests' > requests =>
                /\ requests' = requests + 1
                /\ pc = "fetching" /\ pc' = "fetching"
                /\ fetchCalls' = fetchCalls /\ fetchCalls # <<>>]_vars

\* pack 2 is done: each of its two channels gave MAX_VIDEOS_PER_CHANNEL
\* records, one of them from a feed of more entries, and the three videos of
\* the considered set were fetched
C28_Witness ==
    /\ g = 2 /\ PackDone
    /\ Len(listed) = PackBudget(2)
    /\ Len(videos) = 3 /\ Len(fetchCalls) = 3


====
